---- MODULE Spec2Model ----
(***************************************************************************)
(* Model of the image-mrc decoder: the byte-order aware stream reader      *)
(* (decoder/stream.rs), the Decoder and its Limits, and the DecodingResult *)
(* buffer constructors (decoder/mod.rs).                                   *)
(*                                                                         *)
(* Option<T> values are sequences: <<>> is None, <<x>> is Some(x).         *)
(* A byte stream is a sequence of numbers in 0..255.                       *)
(* A scalar read returns its value as base-256 digits, most significant    *)
(* digit first, so that 32 and 64 bit values stay exact.                   *)
(***************************************************************************)
EXTENDS Integers, Sequences, FiniteSets, TLC

VARIABLES
    stream,     \* the bytes of the underlying Read + Seek source
    reader,     \* Option<SmartReader>: a reader wrapped directly, [pos, byte_order]
    decoder,    \* Option<Decoder>
    buffer,     \* Option<DecodingResult> last returned, with the ceiling it was checked against
    result,     \* outcome of the last call: [op, arg, kind, err, val]
    ncalls,     \* number of init() calls made on the decoder since Decoder::new
    wrapOrder,  \* Option<ByteOrder>: the order handed to SmartReader::wrap
    refused     \* Option<<<op, size>>>: the buffer request last refused with LimitsExceeded

vars == <<stream, reader, decoder, buffer, result, ncalls, wrapOrder, refused>>

----------------------------------------------------------------------------
(* Bounds of the model *)

MaxNz == 2          \* largest nz written into an input file
MaxDim == 1         \* largest nx = ny written into an input file
MaxSize == 3        \* largest element count asked of a buffer constructor
MaxCeiling == 4     \* largest decoding_buffer_size given to with_limits
MaxCalls == 3       \* init() calls on one decoder
MaxStreamLen == 8   \* longest raw stream handed to SmartReader::wrap
MaxBulk == 2        \* longest buffer handed to a read_*_into
WordMax == 15       \* usize::MAX of the model's machine word (2^64 - 1 in the source)

----------------------------------------------------------------------------
(* Option *)

None == <<>>
Some(x) == <<x>>

(* ByteOrder, stream.rs *)
ByteOrder == {"LittleEndian", "BigEndian"}

(* MrcError kinds, error.rs *)
MrcError == {"FormatError", "UnsupportedError", "IoError", "LimitsExceeded"}

(* the outcome of a call: the operation, its arguments, Ok(val) or Err(err) *)
Ok(op, arg, v) == [op |-> op, arg |-> arg, kind |-> "Ok", err |-> "none", val |-> v]
Err(op, arg, e) == [op |-> op, arg |-> arg, kind |-> "Err", err |-> e, val |-> <<>>]

Min(a, b) == IF a < b THEN a ELSE b

----------------------------------------------------------------------------
(* The fixed header's layout, from the offsets documented in header.rs.    *)
(* Offsets are 1-based, as in the source comments.                         *)

HeaderLen == 224
NxOff == 1
NyOff == 5
NzOff == 9
ModeOff == 13
NsymbtOff == 93
MapOff == 209
MachStOff == 213

MapMagic == <<77, 65, 80, 32>>          \* "MAP "
StampLE == <<68, 68, 0, 0>>             \* 0x44 0x44 0x00 0x00
StampBE == <<17, 17, 0, 0>>             \* 0x11 0x11 0x00 0x00

(* The mode codes that Mode names: Mode0..Mode4, Mode6, Mode16 *)
RecognizedModes == {0, 1, 2, 3, 4, 6, 16}

(* bytes of one element of a mode, from Mode's documentation *)
ModeBytes(m) ==
    CASE m = 0 -> 1
      [] m = 1 -> 2
      [] m = 2 -> 4
      [] m = 3 -> 4
      [] m = 4 -> 8
      [] m = 6 -> 2
      [] m = 16 -> 3
      [] OTHER -> 0

Reverse(s) == [i \in 1..Len(s) |-> s[Len(s) + 1 - i]]

(* the four bytes of a non-negative 32 bit field in the given order *)
I32Bytes(v, order) ==
    LET le == <<v % 256, (v \div 256) % 256, (v \div 65536) % 256, (v \div 16777216) % 256>>
    IN  IF order = "BigEndian" THEN Reverse(le) ELSE le

(* the byte order a machine stamp calls for; None for an unknown stamp *)
StampOrder(st) ==
    IF st = StampLE THEN Some("LittleEndian")
    ELSE IF st = StampBE THEN Some("BigEndian")
    ELSE None

(* the bytes of an MRC file: fixed header, nsymbt bytes of extended header, *)
(* ndata bytes of pixel data                                                *)
MrcFile(map, mach_st, mode, nx, ny, nz, nsymbt, ndata) ==
    LET o == IF mach_st = StampBE THEN "BigEndian" ELSE "LittleEndian"
        put(i, off, b) == b[i - off + 1]
        in(i, off) == i >= off /\ i < off + 4
    IN  [i \in 1..(HeaderLen + nsymbt + ndata) |->
            IF in(i, NxOff) THEN put(i, NxOff, I32Bytes(nx, o))
            ELSE IF in(i, NyOff) THEN put(i, NyOff, I32Bytes(ny, o))
            ELSE IF in(i, NzOff) THEN put(i, NzOff, I32Bytes(nz, o))
            ELSE IF in(i, ModeOff) THEN put(i, ModeOff, I32Bytes(mode, o))
            ELSE IF in(i, NsymbtOff) THEN put(i, NsymbtOff, I32Bytes(nsymbt, o))
            ELSE IF in(i, MapOff) THEN put(i, MapOff, map)
            ELSE IF in(i, MachStOff) THEN put(i, MachStOff, mach_st)
            ELSE IF i > HeaderLen + nsymbt THEN (i - HeaderLen - nsymbt) % 256
            ELSE 0]

(* what the bytes of a file say *)
FileMap(s) == SubSeq(s, MapOff, MapOff + 3)
FileStamp(s) == SubSeq(s, MachStOff, MachStOff + 3)
FileI32(s, off) ==
    LET b == SubSeq(s, off, off + 3)
        le == IF FileStamp(s) = StampBE THEN Reverse(b) ELSE b
    IN  le[1] + 256 * le[2] + 65536 * le[3] + 16777216 * le[4]
FileNx(s) == FileI32(s, NxOff)
FileNy(s) == FileI32(s, NyOff)
FileNz(s) == FileI32(s, NzOff)
FileMode(s) == FileI32(s, ModeOff)
FileNsymbt(s) == FileI32(s, NsymbtOff)
SectionBytes(s) == FileNx(s) * FileNy(s) * ModeBytes(FileMode(s))
PixelDataStart(s) == HeaderLen + FileNsymbt(s)

(* the input files: every combination of a good or bad magic, the two     *)
(* stamps or an unknown one, a recognized or unrecognized mode, an         *)
(* extended header of 0 or 80 bytes, and complete pixel data               *)
Magics == {MapMagic, <<77, 65, 80, 0>>}
Stamps == {StampLE, StampBE, <<0, 0, 0, 0>>}
Modes == {0, 1, 99}
Nsymbts == {0, 80}

Streams ==
    { MrcFile(m, st, md, d, d, nz, ns, d * d * nz * ModeBytes(md)) :
        m \in Magics, st \in Stamps, md \in Modes, d \in 0..MaxDim,
        nz \in 0..MaxNz, ns \in Nsymbts }

----------------------------------------------------------------------------
(* stream.rs: SmartReader and the EndianReader scalar reads.               *)
(* A reader value is [pos, byte_order]; the bytes are the variable stream. *)

(* SmartReader::wrap with the order hard-wired instead of taken from the caller *)
wrap_fixed_order(pos, order) == [pos |-> pos, byte_order |-> "LittleEndian"]

(* SmartReader::wrap *)
wrap(pos, order) == [pos |-> pos, byte_order |-> order]

(* EndianReader::byte_order for SmartReader *)
byte_order(rd) == rd.byte_order

(* Read::read for SmartReader: up to n bytes from the cursor *)
read(rd, s, n) ==
    LET avail == IF rd.pos >= Len(s) THEN 0 ELSE Len(s) - rd.pos
        k == Min(n, avail)
    IN  [bytes |-> SubSeq(s, rd.pos + 1, rd.pos + k),
         rd |-> [rd EXCEPT !.pos = @ + k]]

(* Read::read_exact (the provided method): reads until n bytes are there   *)
(* or the source is exhausted, which is an io::Error                       *)
read_exact(rd, s, n) ==
    LET r == read(rd, s, n)
    IN  [ok |-> Len(r.bytes) = n, bytes |-> r.bytes, rd |-> r.rd]

(* Seek::seek(SeekFrom::Start(p)) for SmartReader *)
seek(rd, p) == [rd EXCEPT !.pos = p]

(* uN::from_le_bytes / from_be_bytes: the value as base-256 digits, most   *)
(* significant first                                                       *)
from_le_bytes_noswap(n) == n      \* from_le_bytes keeping the bytes in stream order
from_le_bytes(n) == Reverse(n)
from_be_bytes(n) == n

(* iN::from_le_bytes / from_be_bytes: the two's complement value *)
RECURSIVE DigitsValue(_)
DigitsValue(d) ==
    IF Len(d) = 0 THEN 0 ELSE 256 * DigitsValue(SubSeq(d, 1, Len(d) - 1)) + d[Len(d)]
SignedValue(d) ==
    IF d[1] >= 128
    THEN DigitsValue(<<d[1] - 256>> \o SubSeq(d, 2, Len(d)))
    ELSE DigitsValue(d)
signed_from_le_bytes(n) == SignedValue(Reverse(n))
signed_from_be_bytes(n) == SignedValue(n)

(* the body shared by read_u16, read_u32, read_u64, read_f32, read_f64:    *)
(* w bytes, then the conversion the byte order selects                     *)
read_unsigned(rd, s, w) ==
    LET r == read_exact(rd, s, w)
    IN  IF ~r.ok
        THEN [ok |-> FALSE, val |-> <<>>, rd |-> r.rd]
        ELSE [ok |-> TRUE,
              val |-> IF byte_order(r.rd) = "LittleEndian"
                      THEN from_le_bytes(r.bytes) ELSE from_be_bytes(r.bytes),
              rd |-> r.rd]

(* the body shared by read_i16 and read_i32 *)
read_signed(rd, s, w) ==
    LET r == read_exact(rd, s, w)
    IN  IF ~r.ok
        THEN [ok |-> FALSE, val |-> 0, rd |-> r.rd]
        ELSE [ok |-> TRUE,
              val |-> IF byte_order(r.rd) = "LittleEndian"
                      THEN signed_from_le_bytes(r.bytes)
                      ELSE signed_from_be_bytes(r.bytes),
              rd |-> r.rd]

read_u16(rd, s) == read_unsigned(rd, s, 2)
read_i16(rd, s) == read_signed(rd, s, 2)
read_u32(rd, s) == read_unsigned(rd, s, 4)
read_i32(rd, s) == read_signed(rd, s, 4)
read_u64(rd, s) == read_unsigned(rd, s, 8)
read_f32(rd, s) == read_unsigned(rd, s, 4)
read_f64(rd, s) == read_unsigned(rd, s, 8)

(* The bulk reads. host is the byte order of the machine the build runs   *)
(* on: the buffer's elements live in memory in that order.                 *)

(* bytecast::uN_as_ne_mut_bytes(buffer): the buffer's memory as bytes, w   *)
(* for each of its n elements                                              *)
as_ne_mut_bytes_len(n, w) == n * w

(* the value of element i of a buffer whose memory holds mem: its w bytes  *)
(* in the host's order, as digits, most significant first                  *)
ne_element(mem, i, w, host) ==
    LET b == SubSeq(mem, (i - 1) * w + 1, i * w)
    IN  IF host = "LittleEndian" THEN Reverse(b) ELSE b

(* uN::from_le that leaves the value as it is on every host *)
from_le_noop(x, host) == x

(* uN::from_le and uN::from_be: a byte swap on a host of the other order *)
from_le(x, host) == IF host = "LittleEndian" THEN x ELSE Reverse(x)
from_be(x, host) == IF host = "BigEndian" THEN x ELSE Reverse(x)

(* the body shared by read_u16_into, read_u32_into, read_u64_into,         *)
(* read_f32_into, read_f64_into for a buffer of n elements of w bytes:     *)
(* read_exact into the buffer's bytes, then the correction of each element *)
read_into(rd, s, n, w, host) ==
    LET r == read_exact(rd, s, as_ne_mut_bytes_len(n, w))
    IN  IF ~r.ok
        THEN [ok |-> FALSE, val |-> <<>>, rd |-> r.rd]
        ELSE [ok |-> TRUE,
              val |-> [i \in 1..n |->
                        IF byte_order(r.rd) = "LittleEndian"
                        THEN from_le(ne_element(r.bytes, i, w, host), host)
                        ELSE from_be(ne_element(r.bytes, i, w, host), host)],
              rd |-> r.rd]

read_u16_into(rd, s, n, host) == read_into(rd, s, n, 2, host)
read_u32_into(rd, s, n, host) == read_into(rd, s, n, 4, host)
read_u64_into(rd, s, n, host) == read_into(rd, s, n, 8, host)
read_f32_into(rd, s, n, host) == read_into(rd, s, n, 4, host)
read_f64_into(rd, s, n, host) == read_into(rd, s, n, 8, host)

----------------------------------------------------------------------------
(* decoder/mod.rs: Limits, DecodingResult, Decoder *)

(* Limits::default *)
DefaultLimits ==
    [decoding_buffer_size |-> 256 * 1024 * 1024,
     intermediate_buffer_size |-> 128 * 1024 * 1024,
     ifd_value_size |-> 1024 * 1024]

Zeros(n) == [i \in 1..n |-> 0]

AllocOk(kind, size) == [kind |-> "Ok", err |-> "none", val |-> [kind |-> kind, data |-> Zeros(size)]]
AllocErr == [kind |-> "Err", err |-> "LimitsExceeded", val |-> <<>>]

(* new_u8 with the comparison off by one: a request equal to the ceiling is refused *)
new_u8_ge(size, limits) ==
    IF size >= limits.decoding_buffer_size THEN AllocErr ELSE AllocOk("U8", size)

(* new_u16 comparing the element count, not the byte count, with the ceiling *)
new_u16_nodiv(size, limits) ==
    IF size > limits.decoding_buffer_size THEN AllocErr ELSE AllocOk("U16", size)

(* new_u64 multiplying the element count in usize, where the product wraps *)
new_u64_wrapping(size, limits) ==
    IF (size * 8) % (WordMax + 1) > limits.decoding_buffer_size
    THEN AllocErr ELSE AllocOk("U64", size)

(* DecodingResult::new_u8 .. new_f64 *)
new_u8(size, limits) ==
    IF size > limits.decoding_buffer_size THEN AllocErr ELSE AllocOk("U8", size)

new_u16(size, limits) ==
    IF size > limits.decoding_buffer_size \div 2 THEN AllocErr ELSE AllocOk("U16", size)

new_u32(size, limits) ==
    IF size > limits.decoding_buffer_size \div 4 THEN AllocErr ELSE AllocOk("U32", size)

new_u64(size, limits) ==
    IF size > limits.decoding_buffer_size \div 8 THEN AllocErr ELSE AllocOk("U64", size)

new_f32(size, limits) ==
    IF size > limits.decoding_buffer_size \div 4 THEN AllocErr ELSE AllocOk("F32", size)

new_f64(size, limits) ==
    IF size > limits.decoding_buffer_size \div 8 THEN AllocErr ELSE AllocOk("F64", size)

(* DecodingBuffer::len and DecodingBuffer::byte_len *)
len(buf) == Len(buf.data)
byte_len(buf) ==
    CASE buf.kind = "U8" -> 1
      [] buf.kind = "U16" -> 2
      [] buf.kind = "U32" -> 4
      [] buf.kind = "U64" -> 8
      [] buf.kind = "F32" -> 4
      [] buf.kind = "F64" -> 8

(* Decoder::read_header and Decoder::next_image: both return Ok(()) and    *)
(* leave self as it is                                                     *)
read_header(self) == [ok |-> TRUE, err |-> "none", self |-> self]
next_image(self) == [ok |-> TRUE, err |-> "none", self |-> self]

(* Decoder::init: read_header()?; next_image()?; Ok(self) *)
init(self) ==
    LET h == read_header(self)
    IN  IF ~h.ok THEN [ok |-> FALSE, err |-> h.err, self |-> None]
        ELSE LET n == next_image(h.self)
             IN  IF ~n.ok THEN [ok |-> FALSE, err |-> n.err, self |-> None]
                 ELSE [ok |-> TRUE, err |-> "none", self |-> Some(n.self)]

(* Decoder::new: the struct literal, then init() *)
new(r) ==
    init([reader |-> wrap(0, "LittleEndian"),
          byte_order |-> "LittleEndian",
          limits |-> DefaultLimits,
          width |-> 0,
          height |-> 0,
          header |-> None,
          strip_decoder |-> None])

(* with_limits dropping the limits it is given *)
with_limits_ignored(self, limits) == self

(* Decoder::with_limits *)
with_limits(self, limits) == [self EXCEPT !.limits = limits]

(* Decoder::dimensions *)
dimensions(self) == <<self.width, self.height>>

----------------------------------------------------------------------------
(* State machine *)

Init ==
    /\ stream = <<>>
    /\ reader = None
    /\ decoder = None
    /\ buffer = None
    /\ result = Ok("none", <<>>, <<>>)
    /\ ncalls = 0
    /\ wrapOrder = None
    /\ refused = None

(* Decoder::new(r) over the bytes s *)
NewOver(s) ==
    /\ decoder = None
    /\ result.op = "none"
    /\ LET r == new(s)
       IN  /\ decoder' = r.self
           /\ result' = IF r.ok THEN Ok("new", <<>>, <<>>) ELSE Err("new", <<>>, r.err)
    /\ stream' = s
    /\ ncalls' = 0
    /\ UNCHANGED <<reader, buffer, wrapOrder, refused>>

New == \E s \in Streams : NewOver(s)

(* decoder.with_limits(limits) *)
LimitsChoices ==
    {DefaultLimits} \cup
    { [DefaultLimits EXCEPT !.decoding_buffer_size = c] : c \in 0..MaxCeiling }

WithLimits ==
    /\ decoder # None
    /\ \E l \in LimitsChoices :
        /\ decoder' = Some(with_limits(decoder[1], l))
        /\ result' = Ok("with_limits", <<l.decoding_buffer_size>>, <<>>)
    /\ UNCHANGED <<stream, reader, buffer, ncalls, wrapOrder, refused>>

(* decoder.init(): read_header, then next_image, the decoder's only step   *)
(* towards the next image of the file                                      *)
InitCall ==
    /\ decoder # None
    /\ ncalls < MaxCalls
    /\ LET r == init(decoder[1])
       IN  /\ decoder' = r.self
           /\ result' = IF r.ok THEN Ok("init", <<>>, <<>>) ELSE Err("init", <<>>, r.err)
    /\ ncalls' = ncalls + 1
    /\ UNCHANGED <<stream, reader, buffer, wrapOrder, refused>>

(* decoder.dimensions() *)
Dimensions ==
    /\ decoder # None
    /\ result' = Ok("dimensions", <<>>, dimensions(decoder[1]))
    /\ UNCHANGED <<stream, reader, decoder, buffer, ncalls, wrapOrder, refused>>

Next == New \/ WithLimits \/ InitCall \/ Dimensions

Spec == Init /\ [][Next]_vars

----------------------------------------------------------------------------
(* The buffer constructors, called with the decoder's limits *)

(* the files of a volume with recognized mode, good magic and known stamp *)
Volumes ==
    { MrcFile(MapMagic, st, 0, d, d, d, 0, d * d * d) :
        st \in {StampLE, StampBE}, d \in 0..MaxDim }

NewVolume == \E s \in Volumes : NewOver(s)

Allocate(op, r, size) ==
    /\ result' = [r EXCEPT !.val = <<>>] @@
                 [op |-> op, arg |-> <<size, decoder[1].limits.decoding_buffer_size>>]
    /\ buffer' = IF r.kind = "Ok"
                 THEN Some([buf |-> r.val, ceiling |-> decoder[1].limits.decoding_buffer_size])
                 ELSE buffer
    /\ refused' = IF r.kind = "Err" THEN Some(<<op, size>>)
                  ELSE IF refused = Some(<<op, size>>) THEN refused ELSE None
    /\ UNCHANGED <<stream, reader, decoder, ncalls, wrapOrder>>

Alloc_u8 ==
    /\ decoder # None
    /\ \E size \in 0..MaxSize : Allocate("new_u8", new_u8(size, decoder[1].limits), size)

Alloc_u16 ==
    /\ decoder # None
    /\ \E size \in 0..MaxSize : Allocate("new_u16", new_u16(size, decoder[1].limits), size)

Alloc_u32 ==
    /\ decoder # None
    /\ \E size \in 0..MaxSize : Allocate("new_u32", new_u32(size, decoder[1].limits), size)

Alloc_u64 ==
    /\ decoder # None
    /\ \E size \in 0..MaxSize : Allocate("new_u64", new_u64(size, decoder[1].limits), size)

Alloc_f32 ==
    /\ decoder # None
    /\ \E size \in 0..MaxSize : Allocate("new_f32", new_f32(size, decoder[1].limits), size)

Alloc_f64 ==
    /\ decoder # None
    /\ \E size \in 0..MaxSize : Allocate("new_f64", new_f64(size, decoder[1].limits), size)

NextAlloc ==
    \/ NewVolume \/ WithLimits
    \/ Alloc_u8 \/ Alloc_u16 \/ Alloc_u32 \/ Alloc_u64 \/ Alloc_f32 \/ Alloc_f64

SpecAlloc == Init /\ [][NextAlloc]_vars

----------------------------------------------------------------------------
(* The buffer constructors as functions of their arguments: an element    *)
(* count and a ceiling, each drawn from the whole machine word             *)

InitGuard ==
    /\ stream = <<>>
    /\ reader = None
    /\ decoder = None
    /\ buffer = None
    /\ \E op \in {"new_u8", "new_u16", "new_u32", "new_u64", "new_f32", "new_f64"},
          size \in 0..WordMax, ceiling \in 0..WordMax :
            result = Ok("input", <<op, size, ceiling>>, <<>>)
    /\ ncalls = 0
    /\ wrapOrder = None
    /\ refused = None

Construct ==
    /\ result.op = "input"
    /\ LET op == result.arg[1]
           size == result.arg[2]
           limits == [DefaultLimits EXCEPT !.decoding_buffer_size = result.arg[3]]
           r == CASE op = "new_u8" -> new_u8(size, limits)
                  [] op = "new_u16" -> new_u16(size, limits)
                  [] op = "new_u32" -> new_u32(size, limits)
                  [] op = "new_u64" -> new_u64(size, limits)
                  [] op = "new_f32" -> new_f32(size, limits)
                  [] op = "new_f64" -> new_f64(size, limits)
       IN  /\ result' = [r EXCEPT !.val = <<>>] @@
                        [op |-> op, arg |-> <<size, limits.decoding_buffer_size>>]
           /\ buffer' = IF r.kind = "Ok"
                        THEN Some([buf |-> r.val, ceiling |-> limits.decoding_buffer_size])
                        ELSE buffer
    /\ UNCHANGED <<stream, reader, decoder, ncalls, wrapOrder, refused>>

NextGuard == Construct

SpecGuard == InitGuard /\ [][NextGuard]_vars

----------------------------------------------------------------------------
(* A SmartReader wrapped directly over raw bytes *)

ByteVals == {1, 200}

RECURSIVE SeqsUpTo(_)
SeqsUpTo(n) ==
    IF n = 0 THEN {<<>>}
    ELSE LET shorter == SeqsUpTo(n - 1)
         IN  shorter \cup { Append(q, b) : q \in {x \in shorter : Len(x) = n - 1}, b \in ByteVals }

RawStreams == SeqsUpTo(MaxStreamLen)

Wrap ==
    /\ reader = None
    /\ \E s \in RawStreams, o \in ByteOrder :
        /\ stream' = s
        /\ reader' = Some(wrap(0, o))
        /\ wrapOrder' = Some(o)
        /\ result' = Ok("wrap", <<o>>, <<>>)
    /\ UNCHANGED <<decoder, buffer, ncalls, refused>>

ReaderStep(op, r) ==
    /\ reader' = Some(r.rd)
    /\ result' = IF r.ok THEN Ok(op, <<reader[1].pos>>, r.val)
                 ELSE Err(op, <<reader[1].pos>>, "IoError")
    /\ UNCHANGED <<stream, decoder, buffer, ncalls, wrapOrder, refused>>

Read_u16 == reader # None /\ ReaderStep("read_u16", read_u16(reader[1], stream))
Read_i16 == reader # None /\ ReaderStep("read_i16", read_i16(reader[1], stream))
Read_u32 == reader # None /\ ReaderStep("read_u32", read_u32(reader[1], stream))
Read_i32 == reader # None /\ ReaderStep("read_i32", read_i32(reader[1], stream))
Read_u64 == reader # None /\ ReaderStep("read_u64", read_u64(reader[1], stream))
Read_f32 == reader # None /\ ReaderStep("read_f32", read_f32(reader[1], stream))
Read_f64 == reader # None /\ ReaderStep("read_f64", read_f64(reader[1], stream))

(* reader.read(buf) with a buffer of n bytes *)
Read ==
    /\ reader # None
    /\ \E n \in 0..2 :
        LET r == read(reader[1], stream, n)
        IN  /\ reader' = Some(r.rd)
            /\ result' = Ok("read", <<n>>, r.bytes)
    /\ UNCHANGED <<stream, decoder, buffer, ncalls, wrapOrder, refused>>

(* reader.seek(SeekFrom::Start(p)) *)
Seek ==
    /\ reader # None
    /\ \E p \in 0..(Len(stream) + 1) :
        /\ reader' = Some(seek(reader[1], p))
        /\ result' = Ok("seek", <<p>>, <<p>>)
    /\ UNCHANGED <<stream, decoder, buffer, ncalls, wrapOrder, refused>>

(* reader.byte_order() *)
GetByteOrder ==
    /\ reader # None
    /\ result' = Ok("byte_order", <<>>, <<byte_order(reader[1])>>)
    /\ UNCHANGED <<stream, reader, decoder, buffer, ncalls, wrapOrder, refused>>

(* reader.read_*_into(buffer) with a buffer of n elements, on either host *)
BulkStep(op, n, r) ==
    /\ reader' = Some(r.rd)
    /\ result' = IF r.ok THEN Ok(op, <<reader[1].pos, n>>, r.val)
                 ELSE Err(op, <<reader[1].pos, n>>, "IoError")
    /\ UNCHANGED <<stream, decoder, buffer, ncalls, wrapOrder, refused>>

Read_u16_into ==
    /\ reader # None
    /\ \E n \in 0..MaxBulk, host \in ByteOrder :
        BulkStep("read_u16_into", n, read_u16_into(reader[1], stream, n, host))

Read_u32_into ==
    /\ reader # None
    /\ \E n \in 0..MaxBulk, host \in ByteOrder :
        BulkStep("read_u32_into", n, read_u32_into(reader[1], stream, n, host))

Read_u64_into ==
    /\ reader # None
    /\ \E n \in 0..MaxBulk, host \in ByteOrder :
        BulkStep("read_u64_into", n, read_u64_into(reader[1], stream, n, host))

Read_f32_into ==
    /\ reader # None
    /\ \E n \in 0..MaxBulk, host \in ByteOrder :
        BulkStep("read_f32_into", n, read_f32_into(reader[1], stream, n, host))

Read_f64_into ==
    /\ reader # None
    /\ \E n \in 0..MaxBulk, host \in ByteOrder :
        BulkStep("read_f64_into", n, read_f64_into(reader[1], stream, n, host))

NextReader ==
    \/ Wrap \/ Read \/ Seek \/ GetByteOrder
    \/ Read_u16 \/ Read_i16 \/ Read_u32 \/ Read_i32 \/ Read_u64 \/ Read_f32 \/ Read_f64
    \/ Read_u16_into \/ Read_u32_into \/ Read_u64_into \/ Read_f32_into \/ Read_f64_into

SpecReader == Init /\ [][NextReader]_vars

----------------------------------------------------------------------------
(* Properties *)

(* a file a decoder is meant to accept: the magic, a known stamp, a known mode *)
ValidFile(s) ==
    /\ FileMap(s) = MapMagic
    /\ StampOrder(FileStamp(s)) # None
    /\ FileMode(s) \in RecognizedModes

AllocOps == {"new_u8", "new_u16", "new_u32", "new_u64", "new_f32", "new_f64"}

(* the bytes of one element that a constructor's buffer holds *)
ElementBytes(op) ==
    CASE op = "new_u8" -> 1
      [] op = "new_u16" -> 2
      [] op \in {"new_u32", "new_f32"} -> 4
      [] op \in {"new_u64", "new_f64"} -> 8

(* C1: over a valid file with nz = N and all its pixel data, the k-th      *)
(* sequential decode call, k <= N, succeeds, returns section k - 1 and has *)
(* read it from pixel_data_start + (k - 1) * section_byte_length, leaving  *)
(* the stream after that section; every call after the N-th returns the    *)
(* end-of-volume signal.                                                   *)
C1_SequentialSections ==
    (decoder # None /\ result.op = "init" /\ ValidFile(stream)) =>
        IF ncalls <= FileNz(stream)
        THEN /\ result.kind = "Ok"
             /\ result.val = <<ncalls - 1>>
             /\ decoder[1].reader.pos =
                    PixelDataStart(stream) + ncalls * SectionBytes(stream)
        ELSE result.kind = "EndOfVolume"

C4_BadMagicRejected ==
    (result.op # "none" /\ FileMap(stream) # MapMagic) =>
        (decoder = None /\ result.kind = "Err" /\ result.err = "FormatError")

(* C5: the byte order of a constructed decoder is the one the machine      *)
(* stamp calls for, and an unknown stamp fails with a format error.        *)
C5_ByteOrderFromStamp ==
    (result.op # "none" /\ FileMap(stream) = MapMagic
        /\ FileMode(stream) \in RecognizedModes) =>
        LET o == StampOrder(FileStamp(stream))
        IN  IF o = None
            THEN decoder = None /\ result.kind = "Err" /\ result.err = "FormatError"
            ELSE decoder # None /\ decoder[1].byte_order = o[1]

(* C6: an otherwise valid header with an unrecognized mode code fails with *)
(* an unsupported-mode error that names the code.                          *)
C6_UnsupportedMode ==
    (result.op # "none" /\ FileMap(stream) = MapMagic
        /\ StampOrder(FileStamp(stream)) # None
        /\ FileMode(stream) \notin RecognizedModes) =>
        /\ decoder = None
        /\ result.kind = "Err"
        /\ result.err = "UnsupportedError"
        /\ result.val = <<FileMode(stream)>>

C8_PixelDataOffset ==
    (decoder # None /\ result.op = "init" /\ ncalls = 1
        /\ ValidFile(stream) /\ FileNz(stream) >= 1) =>
        decoder[1].reader.pos - SectionBytes(stream) = HeaderLen + FileNsymbt(stream)

(* C10: a reader's byte order is the one given to SmartReader::wrap in     *)
(* every state after construction, and byte_order() returns it.            *)
C10_ByteOrderImmutable ==
    /\ reader # None => byte_order(reader[1]) = wrapOrder[1]
    /\ result.op = "byte_order" => result.val = wrapOrder

(* C10 witness: a big-endian reader that has been moved by a seek and by   *)
(* reads reports its order                                                 *)
C10_Witness ==
    /\ reader # None
    /\ wrapOrder = Some("BigEndian")
    /\ reader[1].pos = Len(stream) + 1
    /\ Len(stream) >= 4
    /\ result.op = "byte_order"
    /\ result.val = <<"BigEndian">>

(* the scalar reads, their widths in bytes, and the bytes left at offset p *)
UnsignedOps == {"read_u16", "read_u32", "read_u64", "read_f32", "read_f64"}
SignedOps == {"read_i16", "read_i32"}
ScalarWidth(op) ==
    CASE op \in {"read_u16", "read_i16"} -> 2
      [] op \in {"read_u32", "read_i32", "read_f32"} -> 4
      [] op \in {"read_u64", "read_f64"} -> 8
Remaining(p) == IF p >= Len(stream) THEN 0 ELSE Len(stream) - p
Pow256(k) == CASE k = 0 -> 1 [] k = 1 -> 256 [] k = 2 -> 65536 [] k = 3 -> 16777216

(* of the w bytes at offset p, the one that carries weight 256^k: the      *)
(* (k+1)-th under LittleEndian, the (w-k)-th under BigEndian               *)
ByteOfWeight(p, w, k, order) ==
    IF order = "LittleEndian" THEN stream[p + k + 1] ELSE stream[p + w - k]

(* C11: a scalar read with at least w bytes left returns Ok, moves the     *)
(* cursor by exactly w, and its value has, at every weight 256^k, the byte *)
(* the reader's order puts there (for a signed read as a two's complement  *)
(* number of w bytes); with fewer than w bytes left it returns an I/O      *)
(* error and no value.                                                     *)
C11_ScalarReads ==
    (reader # None /\ result.op \in UnsignedOps \cup SignedOps) =>
        LET p == result.arg[1]
            w == ScalarWidth(result.op)
            o == wrapOrder[1]
        IN  IF Remaining(p) >= w
            THEN /\ result.kind = "Ok"
                 /\ reader[1].pos = p + w
                 /\ IF result.op \in UnsignedOps
                    THEN /\ Len(result.val) = w
                         /\ \A k \in 0..(w - 1) :
                                result.val[w - k] = ByteOfWeight(p, w, k, o)
                    ELSE /\ (result.val \div Pow256(w - 1)) \in -128..127
                         /\ \A k \in 0..(w - 1) :
                                (result.val \div Pow256(k)) % 256 = ByteOfWeight(p, w, k, o)
            ELSE /\ result.kind = "Err"
                 /\ result.err = "IoError"
                 /\ result.val = <<>>

(* C11 witness: a little-endian read_i32, not at the start of the stream,  *)
(* of four bytes that are no palindrome, returned a negative number        *)
C11_Witness ==
    /\ reader # None
    /\ wrapOrder = Some("LittleEndian")
    /\ result.op = "read_i32"
    /\ result.kind = "Ok"
    /\ result.arg[1] > 0
    /\ stream[result.arg[1] + 1] # stream[result.arg[1] + 4]
    /\ result.val < 0

(* the DecodingResult variant a constructor returns *)
VariantOf(op) ==
    CASE op = "new_u8" -> "U8" [] op = "new_u16" -> "U16" [] op = "new_u32" -> "U32"
      [] op = "new_u64" -> "U64" [] op = "new_f32" -> "F32" [] op = "new_f64" -> "F64"

C13_GuardNoOverflow ==
    result.op \in AllocOps =>
        LET size == result.arg[1]
            ceiling == result.arg[2]
            w == ElementBytes(result.op)
        IN  IF size * w > ceiling
            THEN result.kind = "Err" /\ result.err = "LimitsExceeded" /\ buffer = None
            ELSE /\ result.kind = "Ok"
                 /\ buffer # None
                 /\ buffer[1].buf = [kind |-> VariantOf(result.op), data |-> Zeros(size)]
                 /\ len(buffer[1].buf) = size

(* C13 witness: a request whose byte count does not fit the machine word   *)
(* and, wrapped, would be no more than the ceiling, was refused            *)
C13_Witness ==
    /\ result.op = "new_u64"
    /\ result.arg[1] * 8 > WordMax
    /\ (result.arg[1] * 8) % (WordMax + 1) <= result.arg[2]
    /\ result.kind = "Err"
    /\ result.err = "LimitsExceeded"

(* the bulk reads and, for each, its element width and its scalar read *)
BulkOps == {"read_u16_into", "read_u32_into", "read_u64_into", "read_f32_into", "read_f64_into"}
BulkWidth(op) ==
    CASE op = "read_u16_into" -> 2
      [] op \in {"read_u32_into", "read_f32_into"} -> 4
      [] op \in {"read_u64_into", "read_f64_into"} -> 8
ScalarOf(op, rd) ==
    CASE op = "read_u16_into" -> read_u16(rd, stream)
      [] op = "read_u32_into" -> read_u32(rd, stream)
      [] op = "read_u64_into" -> read_u64(rd, stream)
      [] op = "read_f32_into" -> read_f32(rd, stream)
      [] op = "read_f64_into" -> read_f64(rd, stream)

(* n consecutive calls of the scalar read, each from where the last ended *)
RECURSIVE ScalarRun(_, _, _)
ScalarRun(op, rd, n) ==
    IF n = 0 THEN [vals |-> <<>>, rd |-> rd]
    ELSE LET first == ScalarOf(op, rd)
             rest == ScalarRun(op, first.rd, n - 1)
         IN  [vals |-> <<first.val>> \o rest.vals, rd |-> rest.rd]

(* C14: a bulk read into a buffer of n elements with at least n * w bytes  *)
(* left returns Ok, leaves in the buffer exactly the n values that n       *)
(* consecutive scalar reads from the same offset return, and leaves the    *)
(* cursor n * w further, on a host of either byte order; with fewer bytes  *)
(* left it returns an I/O error.                                           *)
C14_BulkEqualsScalars ==
    (reader # None /\ result.op \in BulkOps) =>
        LET p == result.arg[1]
            n == result.arg[2]
            w == BulkWidth(result.op)
            run == ScalarRun(result.op, wrap(p, wrapOrder[1]), n)
        IN  IF Remaining(p) >= n * w
            THEN /\ result.kind = "Ok"
                 /\ Len(result.val) = n
                 /\ result.val = run.vals
                 /\ reader[1] = run.rd
                 /\ reader[1].pos = p + n * w
            ELSE result.kind = "Err" /\ result.err = "IoError"

(* C14 witness: a big-endian read_u16_into of two elements, not from the   *)
(* start of the stream, filled the buffer with two different values whose  *)
(* bytes are no palindromes                                                *)
C14_Witness ==
    /\ reader # None
    /\ wrapOrder = Some("BigEndian")
    /\ result.op = "read_u16_into"
    /\ result.kind = "Ok"
    /\ result.arg[1] > 0
    /\ result.arg[2] = 2
    /\ result.val[1] # result.val[2]
    /\ result.val[1][1] # result.val[1][2]
    /\ result.val[2][1] # result.val[2][2]

====
